---------------------------- MODULE Spec2Model ----------------------------
(***************************************************************************)
(* PDF viewer app: the object-store client (src/service/s3.ts), the HTTP   *)
(* routes (src/index.tsx) and the browser component PDFBrowser.            *)
(*                                                                         *)
(* Strings are sequences of one-character strings, so that endsWith,       *)
(* toLowerCase, split and replace are computed character by character.     *)
(* An optional value (undefined / null in the source) is None or Some(v).  *)
(***************************************************************************)
EXTENDS Integers, Sequences, FiniteSets, TLC

None == <<>>
Some(v) == <<v>>
IsSome(o) == o # <<>>
Val(o) == o[1]

----------------------------------------------------------------------------
(* Bounds of the model.                                                    *)

\* Number of HTTP requests the server handles concurrently.
MaxReq == 1
\* Keys per ListObjectsV2 page (the store's default MaxKeys, 1000, scaled).
PageSize == 3
\* Largest instant new Date() can read while a listing is mapped.
MaxNow == 4

----------------------------------------------------------------------------
(* Strings.                                                                *)

\* String.prototype.toLowerCase on the alphabet of the model.
LowerChar(c) ==
    CASE c = "P" -> "p"
      [] c = "D" -> "d"
      [] c = "F" -> "f"
      [] c = "A" -> "a"
      [] c = "Q" -> "q"
      [] OTHER -> c

toLowerCase(s) == [i \in 1..Len(s) |-> LowerChar(s[i])]

\* String.prototype.endsWith
endsWith(s, suffix) ==
    /\ Len(suffix) <= Len(s)
    /\ SubSeq(s, Len(s) - Len(suffix) + 1, Len(s)) = suffix

\* String.prototype.startsWith
startsWith(s, p) ==
    /\ Len(p) <= Len(s)
    /\ SubSeq(s, 1, Len(p)) = p

\* String.prototype.includes
includes(s, q) ==
    \E i \in 1..(Len(s) + 1) :
        /\ i + Len(q) - 1 <= Len(s)
        /\ SubSeq(s, i, i + Len(q) - 1) = q

\* String.prototype.split('/'): the segments between the separators; a
\* string without separator is its own single segment, and the empty string
\* gives one empty segment.
RECURSIVE split(_, _)
split(s, sep) ==
    IF \A i \in 1..Len(s) : s[i] # sep
    THEN <<s>>
    ELSE LET i == CHOOSE k \in 1..Len(s) :
                      /\ s[k] = sep
                      /\ \A j \in 1..(k - 1) : s[j] # sep
         IN  <<SubSeq(s, 1, i - 1)>> \o split(SubSeq(s, i + 1, Len(s)), sep)

\* Array.prototype.pop on a non-empty array: its last element.
pop(a) == a[Len(a)]

\* Mutant: the ETag passed on as the store sends it.
keepQuotes(s) == s

\* String.prototype.replace(/"/g, ''): every double quote removed.
RECURSIVE stripQuotes(_)
stripQuotes(s) ==
    IF s = <<>> THEN <<>>
    ELSE IF Head(s) = "\"" THEN stripQuotes(Tail(s))
    ELSE <<Head(s)>> \o stripQuotes(Tail(s))

PdfExt == <<".", "p", "d", "f">>

\* UTF-8 code of a character of the model's alphabet (the store lists keys
\* in UTF-8 binary order).
CharCode(c) ==
    CASE c = "\"" -> 34
      [] c = "." -> 46
      [] c = "/" -> 47
      [] c = "1" -> 49
      [] c = "A" -> 65
      [] c = "D" -> 68
      [] c = "F" -> 70
      [] c = "P" -> 80
      [] c = "a" -> 97
      [] c = "b" -> 98
      [] c = "c" -> 99
      [] c = "d" -> 100
      [] c = "e" -> 101
      [] c = "f" -> 102
      [] c = "m" -> 109
      [] c = "p" -> 112
      [] c = "q" -> 113
      [] c = "t" -> 116
      [] c = "x" -> 120
      [] OTHER -> 122

RECURSIVE LexLess(_, _)
LexLess(s, t) ==
    IF t = <<>> THEN FALSE
    ELSE IF s = <<>> THEN TRUE
    ELSE IF CharCode(Head(s)) # CharCode(Head(t))
         THEN CharCode(Head(s)) < CharCode(Head(t))
    ELSE LexLess(Tail(s), Tail(t))


\* Number.prototype.toString for a non-negative integer: its decimal digits.
DigitChar(d) ==
    CASE d = 0 -> "0" [] d = 1 -> "1" [] d = 2 -> "2" [] d = 3 -> "3"
      [] d = 4 -> "4" [] d = 5 -> "5" [] d = 6 -> "6" [] d = 7 -> "7"
      [] d = 8 -> "8" [] OTHER -> "9"

RECURSIVE toString(_)
toString(n) ==
    IF n < 10 THEN <<DigitChar(n)>>
    ELSE toString(n \div 10) \o <<DigitChar(n % 10)>>

----------------------------------------------------------------------------
(* The object store.                                                       *)

Q == "\""

\* The objects a bucket may hold, as ListObjectsV2 reports them (the SDK
\* leaves every field optional; the store always sends Key and Size).
Universe ==
    { [Key |-> <<"A", "/", "q", ".", "P", "D", "F">>,
       LastModified |-> Some(1), Size |-> 0, ETag |-> Some(<<Q, "b", Q>>)],
      [Key |-> <<"a", "/", "p", "d", "f">>,
       LastModified |-> Some(2), Size |-> 1, ETag |-> Some(<<Q, "e", Q>>)],
      [Key |-> <<"a", "/", "x", ".", "p", "d", "f">>,
       LastModified |-> Some(3), Size |-> 2,
       ETag |-> Some(<<Q, "a", "b", "c", "1", "2", "3", Q>>)],
      [Key |-> <<"b", "/", "x", ".", "p", "d", "f">>,
       LastModified |-> Some(3), Size |-> 1, ETag |-> Some(<<Q, "c", Q>>)],
      [Key |-> <<"c", "/">>,
       LastModified |-> Some(2), Size |-> 0, ETag |-> Some(<<Q, "d", Q>>)],
      [Key |-> <<"q", ".", "p", "d", "f">>,
       LastModified |-> None, Size |-> 1, ETag |-> None] }

Keys(S) == {o.Key : o \in S}

\* The objects of S in ascending UTF-8 order of their keys.
RECURSIVE SortedByKey(_)
SortedByKey(S) ==
    IF S = {} THEN <<>>
    ELSE LET m == CHOOSE o \in S :
                      \A o2 \in S : o2 = o \/ LexLess(o.Key, o2.Key)
         IN  <<m>> \o SortedByKey(S \ {m})

Take(s, n) == SubSeq(s, 1, IF Len(s) < n THEN Len(s) ELSE n)

\* ListObjectsV2 without MaxKeys or ContinuationToken: the first page of
\* the objects whose key starts with the prefix, in key order.  Contents is
\* left undefined when the page is empty.
ListObjectsV2(content, Prefix) ==
    LET p == IF IsSome(Prefix) THEN Val(Prefix) ELSE <<>>
        matching == {o \in content : startsWith(o.Key, p)}
        page == Take(SortedByKey(matching), PageSize)
    IN  [Contents |-> IF page = <<>> THEN None ELSE Some(page)]


----------------------------------------------------------------------------
(* src/service/s3.ts                                                       *)

\* Mutant: the extension test without toLowerCase.
isPdfKeyCaseSensitive(Key) == Key # <<>> /\ endsWith(Key, PdfExt)

\* .filter(obj => obj.Key && obj.Key.toLowerCase().endsWith('.pdf'))
isPdfKey(Key) == Key # <<>> /\ endsWith(toLowerCase(Key), PdfExt)

RECURSIVE filterPdf(_)
filterPdf(objs) ==
    IF objs = <<>> THEN <<>>
    ELSE IF isPdfKey(Head(objs).Key)
         THEN <<Head(objs)>> \o filterPdf(Tail(objs))
    ELSE filterPdf(Tail(objs))

\* .map(obj => ({key, lastModified: LastModified || new Date(),
\*               size: Size || 0, etag: ETag?.replace(/"/g, '') || ''}))
toS3File(obj, now) ==
    [key |-> obj.Key,
     lastModified |-> IF IsSome(obj.LastModified) THEN Val(obj.LastModified)
                      ELSE now,
     size |-> IF obj.Size # 0 THEN obj.Size ELSE 0,
     etag |-> IF IsSome(obj.ETag) THEN stripQuotes(Val(obj.ETag)) ELSE <<>>]

\* Mutant: the comparator with its operands swapped (ascending order).
compareAscending(a, b) == a.lastModified - b.lastModified

\* The comparator of files.sort: (a, b) => b.lastModified - a.lastModified
compare(a, b) == b.lastModified - a.lastModified

\* Array.prototype.sort is stable: x goes behind every element that the
\* comparator does not put after it.
RECURSIVE insertSorted(_, _)
insertSorted(sorted, x) ==
    IF sorted = <<>> THEN <<x>>
    ELSE IF compare(Head(sorted), x) <= 0
         THEN <<Head(sorted)>> \o insertSorted(Tail(sorted), x)
    ELSE <<x>> \o sorted

RECURSIVE sort(_)
sort(arr) ==
    IF arr = <<>> THEN <<>>
    ELSE insertSorted(sort(SubSeq(arr, 1, Len(arr) - 1)), arr[Len(arr)])

\* Mutant: an empty prefix sent as the root folder "/" instead of undefined.
listCommandRootSlash(pfx) == [Prefix |-> IF pfx # <<>> THEN Some(pfx) ELSE Some(<<"/">>)]

\* new ListObjectsV2Command({Bucket, Prefix: prefix || undefined})
listCommand(pfx) == [Prefix |-> IF pfx # <<>> THEN Some(pfx) ELSE None]

\* The value listPDFFiles returns for a response of the store.
listPDFFiles(response, now) ==
    IF ~IsSome(response.Contents) THEN <<>>
    ELSE LET kept == filterPdf(Val(response.Contents))
         IN  sort([i \in 1..Len(kept) |-> toS3File(kept[i], now)])

\* Mutant: the first path segment instead of the last (shift for pop).
shift(a) == a[1]

\* key.split('/').pop(): the last of the segments.
lastSegment(a) == pop(a)

\* The headers of the Response getS3FileStream builds.
streamHeaders(key, ContentLength) ==
    [ContentType |-> "application/pdf",
     ContentDisposition |-> <<"inline; filename=\"", lastSegment(split(key, "/")), "\"">>,
     CacheControl |-> "public, max-age=3600",
     ContentLength |-> Some(IF IsSome(ContentLength)
                            THEN toString(Val(ContentLength)) ELSE <<>>)]

----------------------------------------------------------------------------
(* src/index.tsx: the two routes, one handler run per request.            *)

VARIABLES
    store,        \* the bucket's objects
    pc,           \* per request: where its handler is
    route,        \* per request: "list", "get" or "" before it arrives
    query,        \* per request: the query parameter as received (optional)
    arg,          \* per request: the Prefix or Key given to the store
    calls,        \* per request: commands sent to the store so far
    resp,         \* per request: the HTTP response
    total,        \* per request: chunks of the object body being streamed
    sent,         \* per request: chunks delivered to the client so far
    reply,        \* per request: what the store last answered, "" before
    declared,     \* per request: the ContentLength of the GetObject output
    log,          \* per request: what the handler wrote with console.error
    listed,       \* per prefix: what the last call of listPDFFiles gave
    files,        \* PDFBrowser: useState<S3File[]>([])
    loading,      \* PDFBrowser: useState(true)
    error,        \* PDFBrowser: useState<string | null>(null)
    prefix,       \* PDFBrowser: useState('')
    selectedFile, \* PDFBrowser: useState<string | null>(null)
    searchQuery,  \* PDFBrowser: useState('')
    mounted,      \* PDFBrowser: whether the mount effect has run
    inflight      \* PDFBrowser: the list fetches awaiting their response

httpVars == <<pc, route, query, arg, calls, resp, total, sent, reply, declared,
              log>>
uiVars == <<files, loading, error, prefix, selectedFile, searchQuery, mounted,
            inflight>>
vars == <<store, httpVars, listed, uiVars>>

Req == 1..MaxReq

NoHeaders ==
    [ContentType |-> "", ContentDisposition |-> <<>>, CacheControl |-> "",
     ContentLength |-> None]

NoResp ==
    [status |-> 0, error |-> "", files |-> <<>>, count |-> 0,
     headers |-> NoHeaders, complete |-> FALSE]

jsonError(status, message) ==
    [NoResp EXCEPT !.status = status, !.error = message, !.complete = TRUE]

\* Mutant: count left at its initial value.
listOkNoCount(fs) ==
    [NoResp EXCEPT !.status = 200, !.files = fs, !.complete = TRUE]

\* Response.json({files, count: files.length})
listOk(fs) ==
    [NoResp EXCEPT !.status = 200, !.files = fs, !.count = Len(fs),
                   !.complete = TRUE]

\* Query strings a client may send (None: the parameter is absent).
PrefixParams ==
    {None, Some(<<>>), Some(<<"a", "/">>), Some(<<"b">>)}

KeyParams ==
    {None, Some(<<>>), Some(<<"m", ".", "p", "d", "f">>),
     Some(<<"a", "/", "x", ".", "p", "d", "f">>), Some(<<"c", "/">>),
     Some(<<"q", ".", "p", "d", "f">>)}

\* Prefix arguments of listPDFFiles.
Prefixes == {<<>>, <<"a", "/">>, <<"b">>}

NowSet == (MaxNow - 1)..MaxNow

Init ==
    /\ store \in SUBSET Universe
    /\ pc = [r \in Req |-> "idle"]
    /\ route = [r \in Req |-> ""]
    /\ query = [r \in Req |-> None]
    /\ arg = [r \in Req |-> [Prefix |-> None]]
    /\ calls = [r \in Req |-> 0]
    /\ resp = [r \in Req |-> NoResp]
    /\ total = [r \in Req |-> 0]
    /\ sent = [r \in Req |-> 0]
    /\ reply = [r \in Req |-> ""]
    /\ declared = [r \in Req |-> None]
    /\ log = [r \in Req |-> <<>>]
    /\ listed = [p \in Prefixes |-> None]
    /\ files = <<>>
    /\ loading = TRUE
    /\ error = None
    /\ prefix = <<>>
    /\ selectedFile = None
    /\ searchQuery = <<>>
    /\ mounted = FALSE
    /\ inflight = <<>>

\* url.searchParams.get('prefix') || ''
prefixParam(q) == IF IsSome(q) /\ Val(q) # <<>> THEN Val(q) ELSE <<>>

\* GET /api/file/list up to the await of s3Client.send.
ListRecv(r, q) ==
    /\ pc[r] = "idle"
    /\ arg' = [arg EXCEPT ![r] = listCommand(prefixParam(q))]
    /\ route' = [route EXCEPT ![r] = "list"]
    /\ query' = [query EXCEPT ![r] = q]
    /\ calls' = [calls EXCEPT ![r] = @ + 1]
    /\ pc' = [pc EXCEPT ![r] = "listAwait"]
    /\ UNCHANGED <<store, listed, uiVars, declared, log, resp, total, sent, reply>>

\* The store answers the listing: filter, map, sort, 200 {files, count}.
ListSendOk(r, now) ==
    /\ pc[r] = "listAwait"
    /\ resp' = [resp EXCEPT ![r] =
                    listOk(listPDFFiles(ListObjectsV2(store, arg[r].Prefix), now))]
    /\ reply' = [reply EXCEPT ![r] = "contents"]
    /\ pc' = [pc EXCEPT ![r] = "done"]
    /\ UNCHANGED <<store, listed, uiVars, declared, log, route, query, arg, calls, total, sent>>

\* Mutant: a rejected listing is sent once more before the route gives up.
ListSendFailRetry(r) ==
    /\ pc[r] = "listAwait"
    /\ IF calls[r] < 2
       THEN /\ calls' = [calls EXCEPT ![r] = @ + 1]
            /\ UNCHANGED <<resp, reply, pc>>
       ELSE /\ resp' = [resp EXCEPT ![r] = jsonError(500, "Failed to list PDF files")]
            /\ reply' = [reply EXCEPT ![r] = "error"]
            /\ pc' = [pc EXCEPT ![r] = "done"]
            /\ UNCHANGED calls
    /\ UNCHANGED <<store, listed, uiVars, declared, log, route, query, arg, total, sent>>

\* The rejections s3Client.send can raise, by the name of the error.
StoreErrors == {"AccessDenied", "TimeoutError"}

\* console.error(label, error): one line of the server log.
consoleError(label, err) == [label |-> label, error |-> err]

\* Mutant: the route's 500 carries the message of the store's error.
ListSendFailLeaky(r) ==
    /\ pc[r] = "listAwait"
    /\ \E err \in StoreErrors :
         /\ resp' = [resp EXCEPT ![r] = jsonError(500, err)]
         /\ log' = [log EXCEPT ![r] =
                       <<consoleError("Error listing S3 files:", err),
                         consoleError("Error listing files:",
                                      "Failed to list files from S3")>>]
    /\ reply' = [reply EXCEPT ![r] = "error"]
    /\ pc' = [pc EXCEPT ![r] = "done"]
    /\ UNCHANGED <<store, listed, uiVars, declared, route, query, arg, calls, total, sent>>

\* The store call rejects: listPDFFiles logs and rethrows, the route logs
\* and answers 500.
ListSendFail(r) ==
    /\ pc[r] = "listAwait"
    /\ resp' = [resp EXCEPT ![r] = jsonError(500, "Failed to list PDF files")]
    /\ reply' = [reply EXCEPT ![r] = "error"]
    /\ pc' = [pc EXCEPT ![r] = "done"]
    /\ \E err \in StoreErrors :
         log' = [log EXCEPT ![r] =
                    <<consoleError("Error listing S3 files:", err),
                      consoleError("Error listing files:",
                                   "Failed to list files from S3")>>]
    /\ UNCHANGED <<store, listed, uiVars, declared, route, query, arg, calls, total, sent>>

\* Mutant: only the empty string is refused, null goes on to the store.
keyMissingEmptyOnly(q) == IsSome(q) /\ Val(q) = <<>>

\* if (!key): the parameter is absent (null) or the empty string.
keyMissing(q) == ~IsSome(q) \/ Val(q) = <<>>

\* Whether the bucket holds an object under the Key of a GetObjectCommand.
Stored(Key) == IsSome(Key) /\ Val(Key) \in Keys(store)

\* GET /api/file/get up to the 400 answer or the await of s3Client.send.
GetRecv(r, q) ==
    /\ pc[r] = "idle"
    /\ route' = [route EXCEPT ![r] = "get"]
    /\ query' = [query EXCEPT ![r] = q]
    /\ IF keyMissing(q)
       THEN /\ resp' = [resp EXCEPT ![r] = jsonError(400, "File key is required")]
            /\ pc' = [pc EXCEPT ![r] = "done"]
            /\ UNCHANGED <<arg, calls>>
       ELSE /\ arg' = [arg EXCEPT ![r] = [Key |-> q]]
            /\ calls' = [calls EXCEPT ![r] = @ + 1]
            /\ pc' = [pc EXCEPT ![r] = "getAwait"]
            /\ UNCHANGED resp
    /\ UNCHANGED <<store, listed, uiVars, declared, log, total, sent, reply>>

\* The store answers GetObject with a Body: 200 and the headers; the body
\* is then piped chunk by chunk.
GetSendOk(r, lengthKnown) ==
    /\ pc[r] = "getAwait"
    /\ Stored(arg[r].Key)
    /\ \E o \in store :
        /\ o.Key = Val(arg[r].Key)
        /\ resp' = [resp EXCEPT ![r] =
                       [NoResp EXCEPT !.status = 200,
                            !.headers = streamHeaders(Val(arg[r].Key),
                                IF lengthKnown THEN Some(o.Size) ELSE None)]]
        /\ total' = [total EXCEPT ![r] = o.Size]
        /\ declared' = [declared EXCEPT ![r] =
                            IF lengthKnown THEN Some(o.Size) ELSE None]
    /\ reply' = [reply EXCEPT ![r] = "body"]
    /\ pc' = [pc EXCEPT ![r] = "streaming"]
    /\ UNCHANGED <<store, listed, uiVars, log, route, query, arg, calls, sent>>

\* Mutant: the missing Body is not checked, an empty 200 goes out.
GetSendNoBodyUnchecked(r) ==
    /\ pc[r] = "getAwait"
    /\ ~Stored(arg[r].Key)
    /\ resp' = [resp EXCEPT ![r] =
                    [NoResp EXCEPT !.status = 200, !.complete = TRUE,
                         !.headers = streamHeaders(Val(arg[r].Key), None)]]
    /\ reply' = [reply EXCEPT ![r] = "nobody"]
    /\ pc' = [pc EXCEPT ![r] = "done"]
    /\ UNCHANGED <<store, listed, uiVars, declared, log, route, query, arg, calls, total, sent>>

\* The store answers without a Body (no such object): getS3FileStream
\* throws, the route answers 500.
GetSendNoBody(r) ==
    /\ pc[r] = "getAwait"
    /\ ~Stored(arg[r].Key)
    /\ resp' = [resp EXCEPT ![r] = jsonError(500, "Failed to get PDF file")]
    /\ reply' = [reply EXCEPT ![r] = "nobody"]
    /\ pc' = [pc EXCEPT ![r] = "done"]
    /\ log' = [log EXCEPT ![r] =
                  <<consoleError("Error streaming S3 file:",
                                 "No file content received from S3"),
                    consoleError("Error getting file:",
                                 "Failed to stream file from S3")>>]
    /\ UNCHANGED <<store, listed, uiVars, declared, route, query, arg, calls, total, sent>>

\* The store call rejects (NoSuchKey, network, credentials).
GetSendFail(r) ==
    /\ pc[r] = "getAwait"
    /\ resp' = [resp EXCEPT ![r] = jsonError(500, "Failed to get PDF file")]
    /\ reply' = [reply EXCEPT ![r] = "error"]
    /\ pc' = [pc EXCEPT ![r] = "done"]
    /\ \E err \in StoreErrors :
         log' = [log EXCEPT ![r] =
                    <<consoleError("Error streaming S3 file:", err),
                      consoleError("Error getting file:",
                                   "Failed to stream file from S3")>>]
    /\ UNCHANGED <<store, listed, uiVars, declared, route, query, arg, calls, total, sent>>

\* One chunk of the store's body reaches the client.
StreamChunk(r) ==
    /\ pc[r] = "streaming"
    /\ sent[r] < total[r]
    /\ sent' = [sent EXCEPT ![r] = @ + 1]
    /\ UNCHANGED <<store, listed, uiVars, declared, log, pc, route, query, arg, calls, resp, total,
                   reply>>

\* Mutant: the response is closed before the store's body has ended.
StreamEndEarly(r) ==
    /\ pc[r] = "streaming"
    /\ resp' = [resp EXCEPT ![r].complete = TRUE]
    /\ reply' = [reply EXCEPT ![r] = "end"]
    /\ pc' = [pc EXCEPT ![r] = "done"]
    /\ UNCHANGED <<store, listed, uiVars, declared, log, route, query, arg, calls, total, sent>>

\* The store's body ends: the response is complete.
StreamEnd(r) ==
    /\ pc[r] = "streaming"
    /\ sent[r] = total[r]
    /\ resp' = [resp EXCEPT ![r].complete = TRUE]
    /\ reply' = [reply EXCEPT ![r] = "end"]
    /\ pc' = [pc EXCEPT ![r] = "done"]
    /\ UNCHANGED <<store, listed, uiVars, declared, log, route, query, arg, calls, total, sent>>

\* The read from the store fails while the body is piped: the stream
\* errors, the status line and the headers are already out.
StreamFail(r) ==
    /\ pc[r] = "streaming"
    /\ sent[r] < total[r]
    /\ reply' = [reply EXCEPT ![r] = "readError"]
    /\ pc' = [pc EXCEPT ![r] = "done"]
    /\ UNCHANGED <<store, listed, uiVars, declared, log, route, query, arg, calls, resp, total, sent>>

Next ==
    \E r \in Req :
        \/ \E q \in PrefixParams : ListRecv(r, q)
        \/ \E now \in NowSet : ListSendOk(r, now)
        \/ ListSendFail(r)
        \/ \E q \in KeyParams : GetRecv(r, q)
        \/ \E lengthKnown \in BOOLEAN : GetSendOk(r, lengthKnown)
        \/ GetSendNoBody(r)
        \/ GetSendFail(r)
        \/ StreamChunk(r)
        \/ StreamEnd(r)
        \/ StreamFail(r)

Spec == Init /\ [][Next]_vars

----------------------------------------------------------------------------
(* PDFBrowser: the component's state, its event handlers and its fetches.  *)

\* encodeURIComponent on the alphabet of the model: "/" and the double
\* quote are escaped, letters, digits and "." are not.
RECURSIVE encodeURIComponent(_)
encodeURIComponent(t) ==
    IF t = <<>> THEN <<>>
    ELSE (CASE Head(t) = "/" -> <<"%", "2", "F">>
            [] Head(t) = Q -> <<"%", "2", "2">>
            [] OTHER -> <<Head(t)>>) \o encodeURIComponent(Tail(t))

\* The decoding url.searchParams.get applies to the value of a parameter.
RECURSIVE decodeParam(_)
decodeParam(t) ==
    IF t = <<>> THEN <<>>
    ELSE IF Head(t) = "%" /\ Len(t) >= 3
         THEN (CASE SubSeq(t, 2, 3) = <<"2", "F">> -> <<"/">>
                 [] SubSeq(t, 2, 3) = <<"2", "2">> -> <<Q>>
                 [] OTHER -> <<"%">>) \o decodeParam(SubSeq(t, 4, Len(t)))
    ELSE <<Head(t)>> \o decodeParam(Tail(t))

\* `/api/file/list${searchPrefix ? `?prefix=${encodeURIComponent(...)}` : ''}`
\* as the route reads it back: the prefix parameter, absent or decoded.
listUrlQuery(searchPrefix) ==
    IF searchPrefix # <<>> THEN Some(decodeParam(encodeURIComponent(searchPrefix)))
    ELSE None

\* JSON.stringify of an S3File: the Date becomes a string.
toJSON(f) ==
    [key |-> f.key, lastModified |-> toString(f.lastModified), size |-> f.size,
     etag |-> f.etag]

\* The files of the 200 body the list route sends for a query.
listRouteFiles(content, q, now) ==
    LET fs == listPDFFiles(ListObjectsV2(content, listCommand(prefixParam(q)).Prefix),
                           now)
    IN  [i \in 1..Len(fs) |-> toJSON(fs[i])]

getFileName(key) ==
    IF pop(split(key, "/")) # <<>> THEN pop(split(key, "/")) ELSE key

\* Mutant: the query compared as typed, without toLowerCase.
RECURSIVE filterFilesCaseSensitive(_, _)
filterFilesCaseSensitive(fs, q) ==
    IF fs = <<>> THEN <<>>
    ELSE IF \/ includes(toLowerCase(getFileName(Head(fs).key)), q)
            \/ includes(toLowerCase(Head(fs).key), q)
         THEN <<Head(fs)>> \o filterFilesCaseSensitive(Tail(fs), q)
    ELSE filterFilesCaseSensitive(Tail(fs), q)

\* files.filter(file => getFileName(file.key).toLowerCase().includes(q) ||
\*                      file.key.toLowerCase().includes(q)), q lower-cased
RECURSIVE filterFiles(_, _)
filterFiles(fs, q) ==
    IF fs = <<>> THEN <<>>
    ELSE IF \/ includes(toLowerCase(getFileName(Head(fs).key)), toLowerCase(q))
            \/ includes(toLowerCase(Head(fs).key), toLowerCase(q))
         THEN <<Head(fs)>> \o filterFiles(Tail(fs), q)
    ELSE filterFiles(Tail(fs), q)

filteredFiles == filterFiles(files, searchQuery)

KeysOf(fs) == {fs[i].key : i \in 1..Len(fs)}

\* Which of the three returns of the component is on screen.
\* Mutant: the loading branch is missing, the controls stay rendered.
viewNoSpinner ==
    IF IsSome(error) THEN "error"
    ELSE "main"

view ==
    IF loading THEN "spinner"
    ELSE IF IsSome(error) THEN "error"
    ELSE "main"

\* Texts typed into the search box.
Queries == {<<>>, <<"Q">>, <<"a", "/">>}

RemoveAt(sq, i) == SubSeq(sq, 1, i - 1) \o SubSeq(sq, i + 1, Len(sq))

\* fetchFiles up to its await of fetch.
fetchFiles(searchPrefix) ==
    /\ loading' = TRUE
    /\ error' = None
    /\ inflight' = Append(inflight, searchPrefix)

\* useEffect(() => { fetchFiles(prefix) }, [])
Mount ==
    /\ ~mounted
    /\ mounted' = TRUE
    /\ fetchFiles(prefix)
    /\ UNCHANGED <<store, httpVars, listed, files, prefix, selectedFile, searchQuery>>

\* The fetch resolves with a 200: setFiles(data.files), setLoading(false).
FetchOk(i, now) ==
    /\ i \in 1..Len(inflight)
    /\ files' = listRouteFiles(store, listUrlQuery(inflight[i]), now)
    /\ loading' = FALSE
    /\ inflight' = RemoveAt(inflight, i)
    /\ UNCHANGED <<store, httpVars, listed, error, prefix, selectedFile, searchQuery,
                   mounted>>

\* Mutant: no finally block, loading stays true after a failed fetch.
FetchHttpErrorNoFinally(i) ==
    /\ i \in 1..Len(inflight)
    /\ error' = Some("HTTP error! status: 500")
    /\ inflight' = RemoveAt(inflight, i)
    /\ UNCHANGED <<store, httpVars, listed, files, loading, prefix, selectedFile,
                   searchQuery, mounted>>

\* The fetch resolves with a status that is not ok: the throw is caught.
FetchHttpError(i) ==
    /\ i \in 1..Len(inflight)
    /\ error' = Some("HTTP error! status: 500")
    /\ loading' = FALSE
    /\ inflight' = RemoveAt(inflight, i)
    /\ UNCHANGED <<store, httpVars, listed, files, prefix, selectedFile, searchQuery,
                   mounted>>

\* The fetch rejects (no connection).
FetchNetworkError(i) ==
    /\ i \in 1..Len(inflight)
    /\ error' = Some("Failed to fetch")
    /\ loading' = FALSE
    /\ inflight' = RemoveAt(inflight, i)
    /\ UNCHANGED <<store, httpVars, listed, files, prefix, selectedFile, searchQuery,
                   mounted>>

\* The "Try again" button of the error panel.
TryAgain ==
    /\ view = "error"
    /\ fetchFiles(prefix)
    /\ UNCHANGED <<store, httpVars, listed, files, prefix, selectedFile, searchQuery,
                   mounted>>

\* onChange of the search box.
SetSearchQuery(q) ==
    /\ view = "main"
    /\ searchQuery' = q
    /\ UNCHANGED <<store, httpVars, listed, files, loading, error, prefix,
                   selectedFile, mounted, inflight>>

\* The "Clear search" button, rendered while searchQuery is not empty.
ClearSearch ==
    /\ view = "main"
    /\ searchQuery # <<>>
    /\ searchQuery' = <<>>
    /\ UNCHANGED <<store, httpVars, listed, files, loading, error, prefix,
                   selectedFile, mounted, inflight>>

\* Mutant: the prefix box refetches on every keystroke.
SetPrefixRefetch(p) ==
    /\ view = "main"
    /\ prefix' = p
    /\ fetchFiles(p)
    /\ UNCHANGED <<store, httpVars, listed, files, selectedFile, searchQuery,
                   mounted>>

\* onChange of the prefix box.
SetPrefix(p) ==
    /\ view = "main"
    /\ prefix' = p
    /\ UNCHANGED <<store, httpVars, listed, files, loading, error, selectedFile,
                   searchQuery, mounted, inflight>>

\* Submission of the prefix form ("Apply").
handleSearch ==
    /\ view = "main"
    /\ fetchFiles(prefix)
    /\ UNCHANGED <<store, httpVars, listed, files, prefix, selectedFile, searchQuery,
                   mounted>>

\* The "Reset" button.
Reset ==
    /\ view = "main"
    /\ prefix' = <<>>
    /\ searchQuery' = <<>>
    /\ fetchFiles(<<>>)
    /\ UNCHANGED <<store, httpVars, listed, files, selectedFile, mounted>>

\* A click on a row of the displayed list.
handleFileSelect(key) ==
    /\ view = "main"
    /\ key \in {filteredFiles[i].key : i \in 1..Len(filteredFiles)}
    /\ selectedFile' = Some(key)
    /\ UNCHANGED <<store, httpVars, listed, files, loading, error, prefix,
                   searchQuery, mounted, inflight>>

\* The "View first PDF" button of the empty preview panel.
ViewFirst ==
    /\ view = "main"
    /\ ~IsSome(selectedFile)
    /\ Len(files) > 0
    /\ selectedFile' = Some(files[1].key)
    /\ UNCHANGED <<store, httpVars, listed, files, loading, error, prefix,
                   searchQuery, mounted, inflight>>

\* The "Close preview" button.
ClosePreview ==
    /\ view = "main"
    /\ IsSome(selectedFile)
    /\ selectedFile' = None
    /\ UNCHANGED <<store, httpVars, listed, files, loading, error, prefix,
                   searchQuery, mounted, inflight>>

UINext ==
    \/ Mount
    \/ \E i \in 1..Len(inflight) :
        \/ \E now \in NowSet : FetchOk(i, now)
        \/ FetchHttpError(i)
        \/ FetchNetworkError(i)
    \/ TryAgain
    \/ \E q \in Queries : SetSearchQuery(q)
    \/ ClearSearch
    \/ \E p \in Prefixes : SetPrefix(p)
    \/ handleSearch
    \/ Reset
    \/ \E key \in Keys(Universe) : handleFileSelect(key)
    \/ ViewFirst
    \/ ClosePreview

UISpec == Init /\ [][UINext]_vars

\* A pending fetch settles: the promise of fetch() resolves or rejects.
Settle ==
    \E i \in 1..Len(inflight) :
        \/ FetchHttpError(i)
        \/ FetchNetworkError(i)
        \/ \E now \in NowSet : FetchOk(i, now)

\* The component under the proviso that every HTTP request completes or
\* fails.
UIFairSpec == UISpec /\ WF_vars(Settle)

(* C9: in every state of the browser UI, the selected file is null or a    *)
(* key of the most recently fetched file list.                             *)
C9_SelectionInFetchedList ==
    ~IsSome(selectedFile) \/ Val(selectedFile) \in KeysOf(files)

\* Letters that differ only in case, as pairs of the model's alphabet.
SameLetter(c, d) ==
    \/ c = d
    \/ {c, d} \in {{"a", "A"}, {"p", "P"}, {"d", "D"}, {"f", "F"}, {"q", "Q"}}

\* q occurs in t at position i, letter case ignored.
OccursAt(t, q, i) ==
    /\ i + Len(q) - 1 <= Len(t)
    /\ \A j \in 1..Len(q) : SameLetter(t[i + j - 1], q[j])

ContainsNoCase(t, q) == \E i \in 1..(Len(t) + 1) : OccursAt(t, q, i)

\* The file's name (what follows the last "/") or its key contains q.
MatchesQuery(f, q) ==
    \/ ContainsNoCase(SubSeq(f.key,
            1 + Cardinality({i \in 1..Len(f.key) :
                    \E j \in i..Len(f.key) : f.key[j] = "/"}),
            Len(f.key)), q)
    \/ ContainsNoCase(f.key, q)

\* The subsequence of fs whose entries match q.
RECURSIVE Matching(_, _)
Matching(fs, q) ==
    IF fs = <<>> THEN <<>>
    ELSE (IF MatchesQuery(Head(fs), q) THEN <<Head(fs)>> ELSE <<>>)
             \o Matching(Tail(fs), q)

\* A step that edits the search query: it changes and the step is not the
\* Reset button's.
SearchEdited == searchQuery' # searchQuery /\ ~Reset

(* C11: editing the search query issues no request to the list endpoint    *)
(* and leaves the fetched files, the prefix and the selection as they      *)
(* were; the displayed list is exactly the subsequence of the fetched      *)
(* files whose name or full key contains the query, letter case ignored.   *)
C11_SearchIsLocal ==
    /\ [](filteredFiles = Matching(files, searchQuery))
    /\ [][SearchEdited =>
            /\ inflight' = inflight
            /\ loading' = loading
            /\ files' = files
            /\ prefix' = prefix
            /\ selectedFile' = selectedFile]_vars

\* The query "Q" typed over a fetched list of two: only A/q.PDF is shown,
\* a/x.pdf stays selected.
C11_Witness ==
    /\ searchQuery = <<"Q">>
    /\ Len(files) = 2
    /\ Len(filteredFiles) = 1
    /\ filteredFiles[1].key = <<"A", "/", "q", ".", "P", "D", "F">>
    /\ selectedFile = Some(<<"a", "/", "x", ".", "p", "d", "f">>)

\* A step that issues a request to the list endpoint.
FetchStarted == Len(inflight') > Len(inflight)

\* A step that edits the prefix box or the search box, selects a file or
\* closes the preview, and is not a click on Reset.
EditOrSelect ==
    /\ prefix' # prefix \/ searchQuery' # searchQuery \/ selectedFile' # selectedFile
    /\ ~Reset

(* C15, as stated: the UI issues a list request only on the initial load   *)
(* and on the submission of the prefix form; editing the prefix or the     *)
(* search query, selecting a file and closing the preview issue none.      *)
C15_FetchOnlyOnLoadOrApply ==
    [][/\ FetchStarted => (Mount \/ handleSearch)
       /\ EditOrSelect => ~FetchStarted]_vars

(* C15, amended: the UI issues a list request only on the initial load, on *)
(* the submission of the prefix form, on Reset and on Try again; editing   *)
(* the prefix or the search query, selecting a file and closing the        *)
(* preview issue none.                                                     *)
C15_FetchOnlyOnLoadApplyResetRetry ==
    [][/\ FetchStarted => (Mount \/ handleSearch \/ Reset \/ TryAgain)
       /\ EditOrSelect => ~FetchStarted]_vars

\* After Reset: the list fetched under the prefix b is still held, the
\* prefix box is empty again and a request for the whole bucket is pending.
C15_Witness ==
    /\ mounted
    /\ inflight = << <<>> >>
    /\ prefix = <<>>
    /\ files # <<>>
    /\ \A i \in 1..Len(files) : startsWith(files[i].key, <<"b">>)
    /\ \E o \in store : isPdfKey(o.Key) /\ ~startsWith(o.Key, <<"b">>)

\* A step that takes a fetch out of flight and applies its outcome.
Settled == Len(inflight') < Len(inflight)

(* C16: at most one list fetch is in flight at any time: a fetch in flight *)
(* means loading, loading means only the spinner is rendered, no fetch     *)
(* starts while another is in flight, and when a response is applied no    *)
(* later fetch is pending, so an older response never overwrites a newer.  *)
C16_OneFetchInFlight ==
    /\ [](/\ Len(inflight) <= 1
          /\ inflight # <<>> => loading
          /\ loading => view = "spinner")
    /\ [][/\ FetchStarted => inflight = <<>>
          /\ Settled => inflight' = <<>>]_vars

\* A refetch under the prefix a/ in flight: spinner, the old list held.
C16_Witness ==
    /\ inflight = << <<"a", "/">> >>
    /\ loading
    /\ view = "spinner"
    /\ files # <<>>

(* C17: every list fetch that was started ends with loading = false,       *)
(* given that its request completes or fails; a 200 replaces the file list *)
(* by the response's files and leaves error null; a non-200 or a network   *)
(* failure sets error to a message and leaves the file list as it was.     *)
C17_FetchEnds ==
    /\ (inflight # <<>>) ~> (inflight = <<>> /\ ~loading)
    /\ [][/\ Settled => ~loading'
          /\ \A i \in 1..Len(inflight) :
                /\ (\E now \in NowSet : FetchOk(i, now)) =>
                       /\ error' = None
                       /\ \E now \in NowSet :
                              files' = listRouteFiles(store,
                                           listUrlQuery(inflight[i]), now)
                /\ (FetchHttpError(i) \/ FetchNetworkError(i)) =>
                       /\ IsSome(error')
                       /\ files' = files]_vars

\* A refetch that failed: the error is set, the list fetched before is
\* still held, nothing is loading.
C17_Witness ==
    /\ ~loading
    /\ inflight = <<>>
    /\ IsSome(error)
    /\ files # <<>>

----------------------------------------------------------------------------
(* Claims about the routes.                                                *)

Gets == {r \in Req : route[r] = "get"}
Lists == {r \in Req : route[r] = "list"}

(* C4: a GET /api/file/get without the key parameter is answered 400       *)
(* {error: "File key is required"}, and no call to the store is made for   *)
(* it.                                                                     *)
C4_MissingKeyIs400 ==
    \A r \in Gets :
        ~IsSome(query[r]) =>
            /\ pc[r] = "done"
            /\ resp[r].status = 400
            /\ resp[r].error = "File key is required"
            /\ calls[r] = 0
            /\ reply[r] = ""

\* A get without key, answered 400 with no command sent to the store.
C4_Witness ==
    \E r \in Gets :
        ~IsSome(query[r]) /\ resp[r].status = 400 /\ calls[r] = 0

(* C5: a get for a key the store does not hold never produces a 200: once  *)
(* the store has answered (an error, or no body) the response is 500       *)
(* {error: "Failed to get PDF file"}.                                      *)
C5_AbsentKeyIs500 ==
    \A r \in Gets :
        (~keyMissing(query[r]) /\ Val(query[r]) \notin Keys(store)) =>
            /\ resp[r].status # 200
            /\ pc[r] = "done" =>
                   /\ resp[r].status = 500
                   /\ resp[r].error = "Failed to get PDF file"
                   /\ sent[r] = 0

\* The store answered without a Body for m.pdf, which it does not hold.
C5_Witness ==
    \E r \in Gets :
        /\ query[r] = Some(<<"m", ".", "p", "d", "f">>)
        /\ reply[r] = "nobody"
        /\ resp[r].status = 500

(* C6: a GET /api/file/list is answered 200 {files, count} with count the  *)
(* number of entries of files whenever the store's enumeration succeeds    *)
(* (an empty one gives files = [] and count = 0), 500 {error} whenever the *)
(* store call fails, and no other status.                                  *)
C6_ListStatus ==
    \A r \in Lists :
        pc[r] = "done" =>
            /\ resp[r].status \in {200, 500}
            /\ reply[r] = "contents" =>
                   /\ resp[r].status = 200
                   /\ resp[r].count = Len(resp[r].files)
                   /\ resp[r].error = ""
                   /\ (\A o \in store : ~startsWith(o.Key, prefixParam(query[r])))
                          => (resp[r].files = <<>> /\ resp[r].count = 0)
            /\ reply[r] = "error" =>
                   /\ resp[r].status = 500
                   /\ resp[r].error = "Failed to list PDF files"
                   /\ resp[r].files = <<>>

\* A successful listing of two files, requested without a prefix.
C6_Witness ==
    \E r \in Lists :
        /\ pc[r] = "done"
        /\ reply[r] = "contents"
        /\ resp[r].status = 200
        /\ resp[r].count = 2
        /\ query[r] = None

(* C7: each request to either route causes at most one call to the store;  *)
(* a failed call is not retried, and a request that is answered has made    *)
(* exactly the calls it had made when the store answered.                   *)
C7_AtMostOneStoreCall ==
    \A r \in Req :
        /\ calls[r] <= 1
        /\ reply[r] # "" => calls[r] = 1

\* A listing whose store call failed, answered 500 after the one call.
C7_Witness ==
    \E r \in Req :
        /\ pc[r] = "done"
        /\ reply[r] = "error"
        /\ resp[r].status = 500
        /\ calls[r] = 1
        /\ route[r] = "list"

(* C8, as claimed: a get either is answered 200 and delivers the complete  *)
(* body, or fails wholesale with an error response; a read failure at any  *)
(* point of the streaming never leaves a 200 with a truncated body.        *)
C8_NoPartialGet ==
    \A r \in Gets :
        pc[r] = "done" =>
            \/ resp[r].status = 200 /\ resp[r].complete /\ sent[r] = total[r]
            \/ resp[r].status \in {400, 500} /\ sent[r] = 0

(* C8, amended: a get that fails before getS3FileStream returns (missing   *)
(* key, store error, no body) is answered with an error response and no    *)
(* byte of the object; a get answered 200 delivers the complete body       *)
(* unless the read from the store fails while the body is streamed, and    *)
(* then the 200 stands with a truncated body.                              *)
C8_PartialOnlyOnReadError ==
    \A r \in Gets :
        pc[r] = "done" =>
            \/ /\ resp[r].status = 200
               /\ reply[r] = "end"
               /\ resp[r].complete
               /\ sent[r] = total[r]
            \/ /\ resp[r].status = 200
               /\ reply[r] = "readError"
               /\ ~resp[r].complete
               /\ sent[r] < total[r]
            \/ /\ resp[r].status \in {400, 500}
               /\ reply[r] \in {"", "error", "nobody"}
               /\ resp[r].error # ""
               /\ sent[r] = 0

\* The read failed after one of the two chunks of a/x.pdf: the 200 stands.
C8_Witness ==
    \E r \in Gets :
        /\ pc[r] = "done"
        /\ resp[r].status = 200
        /\ reply[r] = "readError"
        /\ total[r] = 2
        /\ sent[r] = 1

\* The part of key behind its last "/" (all of key when it holds none).
AfterLastSlash(key) ==
    LET slashes == {i \in 1..Len(key) : key[i] = "/"}
        last == IF slashes = {} THEN 0
                ELSE CHOOSE i \in slashes : \A j \in slashes : j <= i
    IN  SubSeq(key, last + 1, Len(key))

(* C10: a 200 answer of getS3FileStream has Content-Type application/pdf,  *)
(* Cache-Control "public, max-age=3600" and Content-Disposition inline     *)
(* with the last "/"-delimited segment of the key as filename, also for a  *)
(* key without "/" and for a key ending in "/".                            *)
C10_StreamHeaders ==
    \A r \in Gets :
        resp[r].status = 200 =>
            /\ resp[r].headers.ContentType = "application/pdf"
            /\ resp[r].headers.CacheControl = "public, max-age=3600"
            /\ resp[r].headers.ContentDisposition =
                   <<"inline; filename=\"", AfterLastSlash(Val(query[r])), "\"">>

\* The folder key c/ served: the filename is empty.
C10_Witness ==
    \E r \in Gets :
        /\ resp[r].status = 200
        /\ query[r] = Some(<<"c", "/">>)
        /\ resp[r].headers.ContentDisposition = <<"inline; filename=\"", <<>>, "\"">>

\* The whole 500 response of a route, as the client receives it.
Generic500(r) ==
    [status |-> 500,
     error |-> IF route[r] = "list" THEN "Failed to list PDF files"
                                    ELSE "Failed to get PDF file",
     files |-> <<>>, count |-> 0, headers |-> NoHeaders, complete |-> TRUE]

\* The errors the server log of a request holds.
Logged(r) == {log[r][i].error : i \in 1..Len(log[r])}

(* C13: a 500 response is the fixed generic response of its route (error   *)
(* "Failed to list PDF files" for list, "Failed to get PDF file" for get),  *)
(* whatever the store's failure was, so two failures on one route give      *)
(* identical responses; the failure's detail is in the server log and in    *)
(* no part of the response.                                                *)
C13_Generic500 ==
    /\ \A r \in Req :
           resp[r].status = 500 =>
               /\ resp[r] = Generic500(r)
               /\ resp[r].error \notin Logged(r)
               /\ reply[r] = "error" => \E err \in StoreErrors : err \in Logged(r)
               /\ reply[r] = "nobody" =>
                      "No file content received from S3" \in Logged(r)
    /\ \A r1, r2 \in Req :
           (resp[r1].status = 500 /\ resp[r2].status = 500
                /\ route[r1] = route[r2]) => resp[r1] = resp[r2]

\* A listing that failed on a timeout: the 500 is generic, the log names
\* the timeout.
C13_Witness ==
    \E r \in Lists :
        /\ resp[r].status = 500
        /\ resp[r].error = "Failed to list PDF files"
        /\ "TimeoutError" \in Logged(r)

(* C14: a 200 get response has a Content-Length header only when the store *)
(* declared the object's length, its value then being that length in        *)
(* decimal; when the store declared none, the response has no              *)
(* Content-Length header.                                                  *)
C14_LengthOnlyIfDeclared ==
    \A r \in Gets :
        (resp[r].status = 200 /\ reply[r] = "body") =>
            resp[r].headers.ContentLength =
                IF IsSome(declared[r]) THEN Some(toString(Val(declared[r])))
                ELSE None

----------------------------------------------------------------------------
(* listPDFFiles called directly, once or more per prefix, on one bucket.   *)

listResult(ok, fs) == [ok |-> ok, files |-> fs]

\* listPDFFiles(bucket, p) resolves.
ListCall(p, now) ==
    /\ listed' = [listed EXCEPT ![p] =
           Some(listResult(TRUE,
                listPDFFiles(ListObjectsV2(store, listCommand(p).Prefix), now)))]
    /\ UNCHANGED <<store, httpVars, uiVars>>

\* s3Client.send rejects: listPDFFiles throws "Failed to list files from S3".
ListThrow(p) ==
    /\ listed' = [listed EXCEPT ![p] = Some(listResult(FALSE, <<>>))]
    /\ UNCHANGED <<store, httpVars, uiVars>>

ListNext ==
    \E p \in Prefixes :
        \/ \E now \in NowSet : ListCall(p, now)
        \/ ListThrow(p)

ListSpec == Init /\ [][ListNext]_vars

\* The listings that succeeded.
Listings == {p \in Prefixes : IsSome(listed[p]) /\ Val(listed[p]).ok}
Listing(p) == Val(listed[p]).files

\* A key whose last four characters are ".pdf" in any letter case.
EndsInPdf(k) ==
    /\ Len(k) >= 4
    /\ k[Len(k) - 3] = "."
    /\ k[Len(k) - 2] \in {"p", "P"}
    /\ k[Len(k) - 1] \in {"d", "D"}
    /\ k[Len(k)] \in {"f", "F"}

KeyAX == <<"a", "/", "x", ".", "p", "d", "f">>
KeyAQ == <<"A", "/", "q", ".", "P", "D", "F">>
KeyBX == <<"b", "/", "x", ".", "p", "d", "f">>

----------------------------------------------------------------------------
(* C1: every entry listPDFFiles returns has a key ending in ".pdf" in any  *)
(* letter case, and the entries are in non-increasing order of             *)
(* lastModified.                                                           *)
C1_PdfOnlySortedDesc ==
    \A p \in Listings :
        LET fs == Listing(p)
        IN  /\ \A i \in 1..Len(fs) : EndsInPdf(fs[i].key)
            /\ \A i \in 1..(Len(fs) - 1) :
                   fs[i].lastModified >= fs[i + 1].lastModified

\* A listing the sort had to reorder: the store lists A/q.PDF (older) before
\* a/x.pdf (newer), and the result has them the other way round.
C1_Witness ==
    /\ <<>> \in Listings
    /\ Len(Listing(<<>>)) = 2
    /\ Listing(<<>>)[1].key = KeyAX
    /\ Listing(<<>>)[2].key = KeyAQ
    /\ Listing(<<>>)[1].lastModified > Listing(<<>>)[2].lastModified

\* The stored objects a listing with prefix p is to report.
PdfUnder(p) == {o \in store : startsWith(o.Key, p) /\ EndsInPdf(o.Key)}

ExactListing(p) ==
    LET fs == Listing(p)
    IN  /\ KeysOf(fs) = Keys(PdfUnder(p))
        /\ Len(fs) = Cardinality(PdfUnder(p))
        /\ \A i \in 1..Len(fs) :
               \E o \in store : o.Key = fs[i].key /\ o.Size = fs[i].size

(* C2, as claimed: for every store content and prefix p, a successful      *)
(* listing has exactly one entry per stored object whose key starts with p *)
(* and ends in ".pdf", with that object's size, and no other entry.        *)
C2_ExactForEveryStore == \A p \in Listings : ExactListing(p)

(* C2, amended: the same, for every store content in which the objects     *)
(* whose key starts with p fit in one page of the store's listing.         *)
C2_ExactWithinOnePage ==
    \A p \in Listings :
        Cardinality({o \in store : startsWith(o.Key, p)}) <= PageSize
            => ExactListing(p)

\* The scenario of the claim: a/x.pdf (size 2) beside a/pdf, which is no
\* PDF key, listed with prefix a/ gives the one entry a/x.pdf of size 2.
C2_Witness ==
    /\ <<"a", "/">> \in Listings
    /\ <<"a", "/", "p", "d", "f">> \in Keys(store)
    /\ Len(Listing(<<"a", "/">>)) = 1
    /\ Listing(<<"a", "/">>)[1].key = KeyAX
    /\ Listing(<<"a", "/">>)[1].size = 2

SupersetOf(p) ==
    KeysOf(Listing(p)) \subseteq {k \in KeysOf(Listing(<<>>)) : startsWith(k, p)}

(* C3, as claimed: on the same store content, the keys listed with the     *)
(* empty prefix that start with p include every key listed with a          *)
(* non-empty prefix p.                                                     *)
C3_EmptyPrefixSuperset ==
    \A p \in Listings : (p # <<>> /\ <<>> \in Listings) => SupersetOf(p)

(* C3, amended: the same, for every store content that fits in one page of *)
(* the store's listing.                                                    *)
C3_SupersetWithinOnePage ==
    \A p \in Listings :
        (p # <<>> /\ <<>> \in Listings /\ Cardinality(store) <= PageSize)
            => SupersetOf(p)

\* Both listings made on a store of one page, the prefixed one not empty.
C3_Witness ==
    /\ <<>> \in Listings
    /\ <<"b">> \in Listings
    /\ Cardinality(store) = PageSize
    /\ KeysOf(Listing(<<"b">>)) = {KeyBX}
    /\ Cardinality(KeysOf(Listing(<<>>))) >= 2

\* e without the double quote it starts with and the one it ends with.
Unquoted(e) ==
    SubSeq(e, IF e # <<>> /\ e[1] = Q THEN 2 ELSE 1,
              IF Len(e) >= 2 /\ e[Len(e)] = Q THEN Len(e) - 1 ELSE Len(e))

(* C12: every etag listPDFFiles exposes is the store's ETag without its    *)
(* surrounding double quotes ("abc123" in quotes upstream is exposed as    *)
(* abc123), and no exposed etag holds a double quote.                      *)
C12_EtagUnquoted ==
    \A p \in Listings :
        \A i \in 1..Len(Listing(p)) :
            LET f == Listing(p)[i]
            IN  /\ \A o \in store :
                       (o.Key = f.key /\ IsSome(o.ETag))
                           => f.etag = Unquoted(Val(o.ETag))
                /\ \A j \in 1..Len(f.etag) : f.etag[j] # Q

\* a/x.pdf, stored with the ETag "abc123" in quotes, listed as abc123.
C12_Witness ==
    /\ <<"a", "/">> \in Listings
    /\ Len(Listing(<<"a", "/">>)) = 1
    /\ Listing(<<"a", "/">>)[1].key = KeyAX
    /\ Listing(<<"a", "/">>)[1].etag = <<"a", "b", "c", "1", "2", "3">>

=============================================================================
